---------------------------- MODULE Spec2Model ----------------------------
(***************************************************************************)
(* A model of the EQL syntax tree (src/eql/ast.py): the expression nodes,  *)
(* the optimizer (optimize and the pairwise combinators &, | and ~) and    *)
(* the PreProcessor registry of constants and macros.                      *)
(*                                                                         *)
(* Every node is one record [kind, vt, s, n, d, kids, id]:                 *)
(*   kind  the concrete class (String, Number, Boolean, Null, Field, ...); *)
(*   vt    the Python type of a Literal's value: "str", "num" or "none"    *)
(*         (a Python bool is the number 1 or 0: True == 1 and              *)
(*         hash(True) == hash(1), so == and dict keys cannot tell them     *)
(*         apart), "" for a node that is no Literal;                       *)
(*   s     the string slot (a String's value, a Field's base, an operator, *)
(*         a comparator, a function name);                                 *)
(*   n, d  a numeric value as the fraction n/d in lowest terms, d > 0;     *)
(*   kids  the child nodes, in slot order;                                 *)
(*   id    the identity of the Python list an And or Or holds in terms     *)
(*         while a call runs (And.__and__ and Or.__or__ extend that list   *)
(*         in place), <<>> for a list no other object can reach.           *)
(* Structural equality (BaseNode.__eq__: same type, equal slots) is        *)
(* equality of the records once the lists are read and the ids dropped     *)
(* (Plain).                                                                *)
(***************************************************************************)
EXTENDS Integers, Sequences, FiniteSets, TLC

VARIABLES
    py3,        \* the interpreter the build runs on: TRUE Python 3, FALSE Python 2
    x,          \* the node an operation is applied to (the left operand of & and |)
    y,          \* the right operand of the last & or |
    op,         \* the last operation: "new", "build", "optimize", "and", "or", "invert"
    res,        \* what the last operation returned
    xAfter,     \* x as it is after the last operation returned (after a
                \* render, the text x received from its child y)
    constants,  \* PreProcessor.constants: names in insertion order, with their Constant
    macros,     \* PreProcessor.macros: names in insertion order, with their Macro
    raised      \* the error add_definition raised last, "" when it returned

vars == <<py3, x, y, op, res, xAfter, constants, macros, raised>>

---------------------------------------------------------------------------
(* Nodes *)

Node(kind, vt, s, n, d, kids) ==
    [kind |-> kind, vt |-> vt, s |-> s, n |-> n, d |-> d, kids |-> kids,
     id |-> <<>>]

\* No node at all: an unused operand or result.
NoNode == Node("None", "", "", 0, 1, <<>>)

\* An exception leaving the call: s names the exception class.
Raise(exc) == Node("Raise", "", exc, 0, 1, <<>>)

IsRaise(node) == node.kind = "Raise"

\* A Python value: [vt, s, n, d].
PyVal(vt, s, n, d) == [vt |-> vt, s |-> s, n |-> n, d |-> d]
PyStr(s) == PyVal("str", s, 0, 1)
PyNum(n, d) == PyVal("num", "", n, d)
PyInt(n) == PyNum(n, 1)
PyBool(b) == PyInt(IF b THEN 1 ELSE 0)
PyNone == PyVal("none", "", 0, 1)

\* Literal.__init__: the literal of class kind holding the Python value v.
Lit(kind, v) == Node(kind, v.vt, v.s, v.n, v.d, <<>>)

\* literal.value
ValueOf(node) == PyVal(node.vt, node.s, node.n, node.d)

String(s) == Lit("String", PyStr(s))
Number(n) == Lit("Number", PyInt(n))
Boolean(v) == Lit("Boolean", v)
Null == Lit("Null", PyNone)
BoolTrue == Boolean(PyBool(TRUE))
BoolFalse == Boolean(PyBool(FALSE))

\* A key of Field.path: a string key or an integer index.
PathKey(v) == Node("Key", v.vt, v.s, v.n, v.d, <<>>)
Field(base, path) == Node("Field", "", base, 0, 1, path)
FunctionCall(name, arguments, as_method) ==
    Node("FunctionCall", "", name, IF as_method THEN 1 ELSE 0, 1, arguments)
MathOperation(left, operator, right) ==
    Node("MathOperation", "", operator, 0, 1, <<left, right>>)
Comparison(left, comparator, right) ==
    Node("Comparison", "", comparator, 0, 1, <<left, right>>)
InSet(expression, container) ==
    Node("InSet", "", "", 0, 1, <<expression>> \o container)
Not(term) == Node("Not", "", "", 0, 1, <<term>>)
And(terms) == Node("And", "", "", 0, 1, terms)
Or(terms) == Node("Or", "", "", 0, 1, terms)

LiteralKinds == {"String", "Number", "Boolean", "Null"}
IsLiteral(node) == node.kind \in LiteralKinds

Left(node) == node.kids[1]
Right(node) == node.kids[2]
Expression_(node) == node.kids[1]
Container(node) == Tail(node.kids)
Term(node) == node.kids[1]

---------------------------------------------------------------------------
(* Python values *)

\* bool(v): a number is true unless zero, a string unless empty, None never.
Truthy(v) ==
    CASE v.vt = "num" -> v.n # 0
      [] v.vt = "str" -> v.s # ""
      [] OTHER -> FALSE

\* a and b, a or b: Python returns one of the operands, not a bool.
PyAnd(a, b) == IF Truthy(a) THEN b ELSE a
PyOr(a, b) == IF Truthy(a) THEN a ELSE b

\* str.lower on the strings of the model.
Lower(s) == IF s = "A" THEN "a" ELSE s

\* The place of a string in Python's order of strings (by code point):
\* "" < "1" < "A" < "a" < "b".
StrRank(s) ==
    CASE s = "" -> 0
      [] s = "1" -> 1
      [] s = "A" -> 2
      [] s = "a" -> 3
      [] OTHER -> 4

Abs(i) == IF i < 0 THEN -i ELSE i

RECURSIVE Gcd(_, _)
Gcd(a, b) == IF b = 0 THEN a ELSE Gcd(b, a % b)

\* floor(a / b) for integers, b # 0 (Integers' \div floors for b > 0).
FloorDiv(a, b) == IF b > 0 THEN a \div b ELSE (-a) \div (-b)

\* The number n/d, d # 0, in lowest terms with a positive denominator.
Frac(n, d) ==
    LET g == Gcd(Abs(n), Abs(d))
        sgn == IF d < 0 THEN -1 ELSE 1
    IN  PyNum((sgn * n) \div g, (sgn * d) \div g)

\* operator.mul, truediv, mod, add, sub on two numbers (b # 0 for / and %).
\* Python's % takes the sign of the divisor: a % b = a - b * floor(a / b).
PyMul(a, b) == Frac(a.n * b.n, a.d * b.d)
PyAdd(a, b) == Frac(a.n * b.d + b.n * a.d, a.d * b.d)
PySub(a, b) == Frac(a.n * b.d - b.n * a.d, a.d * b.d)
PyTrueDiv(a, b) == Frac(a.n * b.d, a.d * b.n)
PyModulo(a, b) ==
    LET q == FloorDiv(a.n * b.d, a.d * b.n)
    IN  PySub(a, PyMul(b, PyInt(q)))

\* a == b on Python values: numbers by value, strings by characters, None
\* equals None, values of different types are unequal.
PyEq(a, b) == a = b

\* a < b where Python defines it: two numbers, or two strings.
PyLess(a, b) ==
    IF a.vt = "num" THEN a.n * b.d < b.n * a.d ELSE StrRank(a.s) < StrRank(b.s)

\* Whether Python orders a and b: Python 3 orders two numbers and two
\* strings and raises TypeError for anything else; Python 2 orders any two
\* values.
Orderable(a, b) == a.vt = b.vt /\ a.vt \in {"num", "str"}

\* Python 2's order of values that Python 3 does not order: None before
\* every number, a number before every string, None not before None.
TypeRank(v) == CASE v.vt = "none" -> 0 [] v.vt = "num" -> 1 [] OTHER -> 2
Py2Less(a, b) ==
    IF Orderable(a, b) THEN PyLess(a, b) ELSE TypeRank(a) < TypeRank(b)

\* Comparison.func_lookup: the comparator applied to two values that are
\* ordered (== and != need no order).
Compare(comparator, a, b) ==
    CASE comparator = "==" -> PyEq(a, b)
      [] comparator = "!=" -> ~PyEq(a, b)
      [] comparator = "<"  -> Py2Less(a, b)
      [] comparator = "<=" -> Py2Less(a, b) \/ PyEq(a, b)
      [] comparator = ">=" -> ~Py2Less(a, b)
      [] OTHER             -> ~Py2Less(a, b) /\ ~PyEq(a, b)

---------------------------------------------------------------------------
(* The lists of terms, which And.__and__ and Or.__or__ extend in place *)

\* A store maps the id of a list to its present elements; a list that was
\* never extended still holds the kids of its node.
EmptyStore == <<>>
Written(st, id, terms) == (id :> terms) @@ st
TermsOf(node, st) ==
    IF node.id # <<>> /\ node.id \in DOMAIN st THEN st[node.id] ELSE node.kids

\* The tree at node as the caller holds it before a call: every And and Or
\* owns a list of its own, named by the path from the root.
RECURSIVE Labelled(_, _)
Labelled(node, path) ==
    [node EXCEPT
        !.kids = [i \in 1..Len(node.kids) |->
                     Labelled(node.kids[i], Append(path, i))],
        !.id = IF node.kind \in {"And", "Or"} THEN path ELSE <<>>]

\* The tree at node as it reads once the call has returned: the lists read
\* from the store, the ids dropped.
RECURSIVE Plain(_, _)
Plain(node, st) ==
    LET ts == TermsOf(node, st)
    IN  [node EXCEPT
            !.kids = [i \in 1..Len(ts) |-> Plain(ts[i], st)],
            !.id = <<>>]

\* BaseNode.__eq__
Eq(a, b, st) == Plain(a, st) = Plain(b, st)

\* What a call returns, and the store it leaves.
R(node, st) == [res |-> node, st |-> st]

---------------------------------------------------------------------------
(* InSet._get_literals: an OrderedDict as a sequence of [k, v] entries *)

HasKey(values, k) == \E i \in 1..Len(values) : values[i].k = k

\* values[k] = v: a new key goes last, a known key keeps its place.
DictSet(values, k, v) ==
    IF HasKey(values, k)
    THEN [i \in 1..Len(values) |->
             IF values[i].k = k THEN [k |-> k, v |-> v] ELSE values[i]]
    ELSE Append(values, [k |-> k, v |-> v])

\* values.setdefault(k, v)
DictSetDefault(values, k, v) ==
    IF HasKey(values, k) THEN values ELSE Append(values, [k |-> k, v |-> v])

DictValues(values) == [i \in 1..Len(values) |-> values[i].v]

RECURSIVE GetLiteralsFrom(_, _)
GetLiteralsFrom(container, values) ==
    IF container = <<>> THEN values
    ELSE LET literal == Head(container)
             k == ValueOf(literal)
         IN  GetLiteralsFrom(Tail(container),
                 IF ~IsLiteral(literal) THEN values
                 ELSE IF literal.kind = "String"
                      THEN DictSetDefault(values, PyStr(Lower(k.s)), literal)
                      ELSE DictSet(values, k, literal))

GetLiterals(self) == GetLiteralsFrom(Container(self), <<>>)

\* [v for k, v in container1.items() if (k in container2) = member]
RECURSIVE Reduced(_, _, _)
Reduced(container1, container2, member) ==
    IF container1 = <<>> THEN <<>>
    ELSE LET rest == Reduced(Tail(container1), container2, member)
         IN  IF HasKey(container2, Head(container1).k) = member
             THEN <<Head(container1).v>> \o rest
             ELSE rest

\* [v for v in container if not isinstance(v, Literal)]
RECURSIVE Dynamic(_)
Dynamic(container) ==
    IF container = <<>> THEN <<>>
    ELSE IF IsLiteral(Head(container)) THEN Dynamic(Tail(container))
         ELSE <<Head(container)>> \o Dynamic(Tail(container))

\* for k, v in other.items(): container.setdefault(k, v)
RECURSIVE SetDefaults(_, _)
SetDefaults(container, other) ==
    IF other = <<>> THEN container
    ELSE SetDefaults(DictSetDefault(container, Head(other).k, Head(other).v),
                     Tail(other))

is_literal(self) == \A i \in 1..Len(Container(self)) : IsLiteral(Container(self)[i])

---------------------------------------------------------------------------
(* The optimizer: optimize, and the combinators &, | and ~.  Each takes  *)
(* the store a call starts from and returns R(result, store it leaves). *)

RECURSIVE Optimize(_, _), AndOp(_, _, _), OrOp(_, _, _), Invert(_, _)
RECURSIVE InSetAnd(_, _, _), AndLoop(_, _, _, _), OrLoop(_, _, _, _)

\* Expression.__and__
ExpressionAnd(self, other, st) ==
    IF IsLiteral(other)
    THEN IF Truthy(ValueOf(other)) THEN R(self, st) ELSE R(BoolFalse, st)
    ELSE IF other.kind = "And"
         THEN R(And(<<self>> \o TermsOf(other, st)), st)
         ELSE R(And(<<self, other>>), st)

\* Expression.__or__: a falsy Literal is not absorbed, it becomes a term.
ExpressionOr(self, other, st) ==
    IF IsLiteral(other) /\ Truthy(ValueOf(other))
    THEN R(BoolTrue, st)
    ELSE IF other.kind = "Or"
         THEN R(Or(<<self>> \o TermsOf(other, st)), st)
         ELSE R(Or(<<self, other>>), st)

\* Expression.__invert__
ExpressionInvert(self, st) == R(Not(self), st)

\* Literal.__and__
LiteralAnd(self, other, st) ==
    IF IsLiteral(other)
    THEN R(Boolean(PyAnd(ValueOf(self), ValueOf(other))), st)
    ELSE IF Truthy(ValueOf(self)) THEN R(other, st) ELSE R(BoolFalse, st)

\* Literal.__or__
LiteralOr(self, other, st) ==
    IF IsLiteral(other)
    THEN R(Boolean(PyOr(ValueOf(self), ValueOf(other))), st)
    ELSE IF Truthy(ValueOf(self)) THEN R(self, st) ELSE R(other, st)

\* Literal.__invert__
LiteralInvert(self, st) == R(Boolean(PyBool(~Truthy(ValueOf(self)))), st)

\* Comparison.optimize.  On Python 3 an ordering comparator applied to two
\* values Python does not order (None and None) raises TypeError.
ComparisonOptimize(self, st) ==
    LET left == Left(self)
        right == Right(self)
        isStr == left.kind = "String"
        lhs == IF isStr THEN PyStr(Lower(left.s)) ELSE ValueOf(left)
        rhs == IF isStr THEN PyStr(Lower(right.s)) ELSE ValueOf(right)
    IN  IF IsLiteral(left) /\ IsLiteral(right)
        THEN IF right.kind # left.kind
             THEN R(Boolean(PyBool(self.s = "!=")), st)
             ELSE IF py3 /\ self.s \notin {"==", "!="} /\ ~Orderable(lhs, rhs)
                  THEN R(Raise("TypeError"), st)
                  ELSE R(Boolean(PyBool(Compare(self.s, lhs, rhs))), st)
        ELSE IF Eq(left, right, st)
             THEN R(Boolean(PyBool(self.s \in {"==", "<=", ">="})), st)
             ELSE R(self, st)

\* Comparison.__invert__
ComparisonInvert(self, st) ==
    CASE self.s = "==" ->
            ComparisonOptimize(Comparison(Left(self), "!=", Right(self)), st)
      [] self.s = "!=" ->
            ComparisonOptimize(Comparison(Left(self), "==", Right(self)), st)
      [] OTHER -> ExpressionInvert(self, st)

\* Comparison.__or__
ComparisonOr(self, other, st) ==
    IF self.s = "==" /\ IsLiteral(Right(self))
       /\ other.kind = "Comparison" /\ Eq(Left(self), Left(other), st)
       /\ other.s = "=="
    THEN IF IsLiteral(Right(other))
         THEN R(InSet(Left(self), <<Right(self), Right(other)>>), st)
         ELSE ExpressionOr(self, other, st)
    ELSE IF self.s = "==" /\ IsLiteral(Right(self))
            /\ other.kind = "InSet" /\ Eq(Left(self), Expression_(other), st)
            /\ is_literal(other)
         THEN R(InSet(Left(self), <<Right(self)>> \o Container(other)), st)
         ELSE ExpressionOr(self, other, st)

\* Comparison.__and__
ComparisonAnd(self, other, st) ==
    IF self.s = "==" /\ other.kind = "InSet"
       /\ Eq(Left(self), Expression_(other), st)
    THEN InSetAnd(InSet(Left(self), <<Right(self)>>), other, st)
    ELSE ExpressionAnd(self, other, st)

\* InSet.optimize, once the container is stabilized.
InSetFold(expression, container, st) ==
    IF Len(container) = 0 THEN R(BoolFalse, st)
    ELSE IF Len(container) = 1
         THEN ComparisonOptimize(Comparison(expression, "==", container[1]), st)
    ELSE IF \E i \in 1..Len(container) : Eq(expression, container[i], st)
         THEN R(BoolTrue, st)
    ELSE R(InSet(expression, container), st)

\* InSet.optimize: literals holds the values of _get_literals in order,
\* dynamic the candidates that are no Literal.
InSetStabilized(expression, values, dynamic, st) ==
    IF IsLiteral(expression)
    THEN IF HasKey(values,
                   IF expression.vt = "str" THEN PyStr(Lower(expression.s))
                   ELSE ValueOf(expression))
         THEN R(BoolTrue, st)
         ELSE InSetFold(expression, dynamic, st)
    ELSE InSetFold(expression, DictValues(values) \o dynamic, st)

\* InSet.optimize
InSetOptimize(self, st) ==
    InSetStabilized(Expression_(self), GetLiterals(self),
                    Dynamic(Container(self)), st)

\* r.optimize() and self & r for the result r of an earlier call.
OptimizeOf(r) == Optimize(r.res, r.st)
ExpressionAndOf(self, r) == ExpressionAnd(self, r.res, r.st)

\* InSet.__and__
InSetAnd(self, other, st) ==
    LET sameInSet == other.kind = "InSet"
                     /\ Eq(Expression_(self), Expression_(other), st)
        isNot == other.kind = "Not"
        sameEq == other.kind = "Comparison" /\ other.s = "=="
                  /\ Eq(Expression_(self), Left(other), st)
        sameNe == other.kind = "Comparison" /\ other.s = "!="
                  /\ Eq(Expression_(self), Left(other), st)
        super == ExpressionAnd(self, other, st)
    IN  IF sameInSet
        THEN IF is_literal(self) /\ is_literal(other)
             THEN InSetOptimize(
                      InSet(Expression_(self),
                            Reduced(GetLiterals(self), GetLiterals(other), TRUE)),
                      st)
             ELSE super
        ELSE IF isNot
        THEN IF Term(other).kind = "InSet"
                /\ Eq(Expression_(self), Expression_(Term(other)), st)
                /\ is_literal(self) /\ is_literal(Term(other))
             THEN InSetOptimize(
                      InSet(Expression_(self),
                            Reduced(GetLiterals(self), GetLiterals(Term(other)),
                                    FALSE)),
                      st)
             ELSE super
        ELSE IF sameEq
        THEN IF is_literal(self) /\ IsLiteral(Right(other))
             THEN OptimizeOf(
                      ExpressionAnd(self, InSet(Left(other), <<Right(other)>>), st))
             ELSE super
        ELSE IF sameNe
        THEN IF is_literal(self) /\ IsLiteral(Right(other))
             THEN OptimizeOf(
                      ExpressionAndOf(
                          self, Invert(InSet(Left(other), <<Right(other)>>), st)))
             ELSE super
        ELSE super

\* An InSet that inherits Expression.__or__: no union of two sets.
InSetOrUnmerged(self, other, st) == ExpressionOr(self, other, st)

\* InSet.__or__: any Comparison over the same expression, whatever its
\* comparator, is taken for the set of its right-hand literal.
InSetOr(self, other, st) ==
    IF other.kind = "InSet" /\ Eq(Expression_(self), Expression_(other), st)
    THEN IF is_literal(self) /\ is_literal(other)
         THEN InSetOptimize(
                  InSet(Expression_(self),
                        DictValues(SetDefaults(GetLiterals(self),
                                               GetLiterals(other)))),
                  st)
         ELSE ExpressionOr(self, other, st)
    ELSE IF other.kind = "Comparison" /\ Eq(Expression_(self), Left(other), st)
    THEN IF is_literal(self) /\ IsLiteral(Right(other))
         THEN ExpressionOr(self, InSet(Left(other), <<Right(other)>>), st)
         ELSE ExpressionOr(self, other, st)
    ELSE ExpressionOr(self, other, st)

\* MathOperation.op_lookup
MathFunc(operator, a, b) ==
    CASE operator = "*" -> PyMul(a, b)
      [] operator = "/" -> PyTrueDiv(a, b)
      [] operator = "%" -> PyModulo(a, b)
      [] operator = "+" -> PyAdd(a, b)
      [] OTHER          -> PySub(a, b)

\* MathOperation.optimize without the guard on a zero divisor: truediv and
\* mod raise ZeroDivisionError.
MathFoldUnguarded(self, left, right, st) ==
    IF left.kind = "Number" /\ right.kind = "Number"
    THEN IF ValueOf(right) = PyInt(0) /\ self.s \in {"/", "%"}
         THEN R(Raise("ZeroDivisionError"), st)
         ELSE R(Lit("Number", MathFunc(self.s, ValueOf(left), ValueOf(right))),
                st)
    ELSE R(MathOperation(left, self.s, right), st)

\* MathOperation.optimize, once both sides are optimized.
MathFold(self, left, right, st) ==
    IF left.kind = "Number" /\ right.kind = "Number"
       /\ ~(ValueOf(right) = PyInt(0) /\ self.s \in {"/", "%"})
    THEN R(Lit("Number", MathFunc(self.s, ValueOf(left), ValueOf(right))), st)
    ELSE IF right.kind = "MathOperation" /\ Eq(Left(right), Number(0), st)
            /\ self.s \in {"-", "+"} /\ right.s \in {"-", "+"}
         THEN R(MathOperation(
                    left,
                    IF (self.s = "-") # (right.s = "-") THEN "-" ELSE "+",
                    Right(right)), st)
         ELSE R(MathOperation(left, self.s, right), st)

\* MathOperation.optimize: left and right are what optimizing the two
\* sides returned; an exception raised there leaves the call.
MathOptimized(self, left, right) ==
    IF IsRaise(right.res) THEN right
    ELSE MathFold(self, left.res, right.res, right.st)

MathOptimizeRight(self, left) ==
    IF IsRaise(left.res) THEN left
    ELSE MathOptimized(self, left, Optimize(Right(self), left.st))

MathOptimize(self, st) == MathOptimizeRight(self, Optimize(Left(self), st))

\* Not.optimize: ~optimized_term
NotOptimized(optimized_term) ==
    IF IsRaise(optimized_term.res) THEN optimized_term
    ELSE Invert(optimized_term.res, optimized_term.st)

NotOptimize(self, st) == NotOptimized(Optimize(Term(self), st))

\* Not.__invert__
NotInvert(self, st) == Optimize(Term(self), st)

\* The And or Or of class kind that holds the list id, now extended to
\* terms, and the store with that list written.
Extended(kind, id, terms, st) ==
    R([Node(kind, "", "", 0, 1, terms) EXCEPT !.id = id],
      IF id # <<>> THEN Written(st, id, terms) ELSE st)

\* And.__and__: extends the list self holds (terms = self.terms, then
\* terms.extend or terms.append) and returns an And holding the same list.
AndAnd(self, other, st) ==
    Extended("And", self.id,
             TermsOf(self, st)
             \o (IF other.kind = "And" THEN TermsOf(other, st) ELSE <<other>>),
             st)

\* Or.__or__
OrOr(self, other, st) ==
    Extended("Or", self.id,
             TermsOf(self, st)
             \o (IF other.kind = "Or" THEN TermsOf(other, st) ELSE <<other>>),
             st)

\* The body of the loop of And.optimize once current & term returned
\* combined, whose terms are ts: an And is spliced into terms.
AndFlatten(rest, terms, combined, ts) ==
    IF IsRaise(combined.res) THEN combined
    ELSE IF combined.res.kind # "And"
    THEN AndLoop(rest, terms, combined.res, combined.st)
    ELSE IF ts = <<>> THEN R(Raise("IndexError"), combined.st)
    ELSE AndLoop(rest, terms \o SubSeq(ts, 1, Len(ts) - 1), ts[Len(ts)],
                 combined.st)

AndCombined(rest, terms, combined) ==
    AndFlatten(rest, terms, combined, TermsOf(combined.res, combined.st))

\* The loop of And.optimize over self.terms[1:]: rest are the terms still to
\* combine, terms the flattened terms so far, current the running result.
AndLoop(rest, terms, current, st) ==
    IF rest = <<>>
    THEN IF terms # <<>> THEN R(And(Append(terms, current)), st)
         ELSE R(current, st)
    ELSE AndCombined(Tail(rest), terms, AndOp(current, Head(rest), st))

\* And.optimize: the terms themselves are not optimized.
AndOptimize(self, st) ==
    IF TermsOf(self, st) = <<>> THEN R(Raise("IndexError"), st)
    ELSE AndLoop(Tail(TermsOf(self, st)), <<>>, Head(TermsOf(self, st)), st)

\* The body of the loop of Or.optimize.
OrFlatten(rest, terms, combined, ts) ==
    IF IsRaise(combined.res) THEN combined
    ELSE IF combined.res.kind # "Or"
    THEN OrLoop(rest, terms, combined.res, combined.st)
    ELSE IF ts = <<>> THEN R(Raise("IndexError"), combined.st)
    ELSE OrLoop(rest, terms \o SubSeq(ts, 1, Len(ts) - 1), ts[Len(ts)],
                combined.st)

OrCombined(rest, terms, combined) ==
    OrFlatten(rest, terms, combined, TermsOf(combined.res, combined.st))

\* The loop of Or.optimize.
OrLoop(rest, terms, current, st) ==
    IF rest = <<>>
    THEN IF terms # <<>> THEN R(Or(Append(terms, current)), st)
         ELSE R(current, st)
    ELSE OrCombined(Tail(rest), terms, OrOp(current, Head(rest), st))

\* Or.optimize
OrOptimize(self, st) ==
    IF TermsOf(self, st) = <<>> THEN R(Raise("IndexError"), st)
    ELSE OrLoop(Tail(TermsOf(self, st)), <<>>, Head(TermsOf(self, st)), st)

\* get_function(name) is not None: the registry of the model holds two
\* functions, every other name (the macro names among them) is unknown.
get_function(name) == name \in {"add", "unsupported"}

\* func.run(*values): what the callback does, the value it returns (raised
\* is "") or the exception it raises.
\*   add          the sum of its arguments, TypeError unless all are numbers
\*   unsupported  NotImplementedError: not supported for constant evaluation
Run(name, values) ==
    LET RECURSIVE Sum(_)
        Sum(i) == IF i > Len(values) THEN PyInt(0)
                  ELSE PyAdd(values[i], Sum(i + 1))
    IN  IF name = "unsupported"
        THEN [raised |-> "NotImplementedError", rv |-> PyNone]
        ELSE IF \A i \in 1..Len(values) : values[i].vt = "num"
        THEN [raised |-> "", rv |-> Sum(1)]
        ELSE [raised |-> "TypeError", rv |-> PyNone]

\* Literal.from_python(python_value) of None, a number that is no bool, or a
\* string
FromPython(python_value) ==
    CASE python_value.vt = "none" -> Null
      [] python_value.vt = "num" -> Lit("Number", python_value)
      [] OTHER -> Lit("String", python_value)

\* FunctionCall.optimize once the arguments are optimized: ran is what the
\* callback did.  Only NotImplementedError is caught.
FunctionCallRan(self, ran, st) ==
    IF ran.raised = "" THEN R(FromPython(ran.rv), st)
    ELSE IF ran.raised = "NotImplementedError" THEN R(self, st)
    ELSE R(Raise(ran.raised), st)

\* The same with every exception of the callback caught.
FunctionCallEvaluatedQuietly(self, st) ==
    IF /\ get_function(self.s)
       /\ \A i \in 1..Len(self.kids) : IsLiteral(self.kids[i])
       /\ Run(self.s, [i \in 1..Len(self.kids) |-> ValueOf(self.kids[i])]).raised = ""
    THEN FunctionCallRan(self,
             Run(self.s, [i \in 1..Len(self.kids) |-> ValueOf(self.kids[i])]), st)
    ELSE R(self, st)

\* The callback runs when the function is known and every argument is a
\* Literal; self holds the optimized arguments.
FunctionCallEvaluated(self, st) ==
    IF /\ get_function(self.s)
       /\ \A i \in 1..Len(self.kids) : IsLiteral(self.kids[i])
    THEN FunctionCallRan(self,
             Run(self.s, [i \in 1..Len(self.kids) |-> ValueOf(self.kids[i])]), st)
    ELSE R(self, st)

\* FunctionCall.optimize: the arguments are optimized in order, then the
\* call is evaluated or built again.
RECURSIVE FunctionCallFrom(_, _, _)
FunctionCallNext(self, i, arg) ==
    IF IsRaise(arg.res) THEN arg
    ELSE FunctionCallFrom([self EXCEPT !.kids[i] = arg.res], i + 1, arg.st)
FunctionCallFrom(self, i, st) ==
    IF i > Len(self.kids) THEN FunctionCallEvaluated(self, st)
    ELSE FunctionCallNext(self, i, Optimize(self.kids[i], st))
FunctionCallOptimize(self, st) == FunctionCallFrom(self, 1, st)

\* node.optimize(): the method of the node's class (BaseNode.optimize
\* returns the node itself).
Optimize(node, st) ==
    CASE node.kind = "MathOperation" -> MathOptimize(node, st)
      [] node.kind = "FunctionCall" -> FunctionCallOptimize(node, st)
      [] node.kind = "Comparison" -> ComparisonOptimize(node, st)
      [] node.kind = "InSet" -> InSetOptimize(node, st)
      [] node.kind = "Not" -> NotOptimize(node, st)
      [] node.kind = "And" -> AndOptimize(node, st)
      [] node.kind = "Or" -> OrOptimize(node, st)
      [] OTHER -> R(node, st)

\* a & b: the __and__ of a's class.
AndOp(a, b, st) ==
    CASE IsLiteral(a) -> LiteralAnd(a, b, st)
      [] a.kind = "Comparison" -> ComparisonAnd(a, b, st)
      [] a.kind = "InSet" -> InSetAnd(a, b, st)
      [] a.kind = "And" -> AndAnd(a, b, st)
      [] OTHER -> ExpressionAnd(a, b, st)

\* a | b: the __or__ of a's class.
OrOp(a, b, st) ==
    CASE IsLiteral(a) -> LiteralOr(a, b, st)
      [] a.kind = "Comparison" -> ComparisonOr(a, b, st)
      [] a.kind = "InSet" -> InSetOr(a, b, st)
      [] a.kind = "Or" -> OrOr(a, b, st)
      [] OTHER -> ExpressionOr(a, b, st)

\* ~a: the __invert__ of a's class.
Invert(a, st) ==
    CASE IsLiteral(a) -> LiteralInvert(a, st)
      [] a.kind = "Comparison" -> ComparisonInvert(a, st)
      [] a.kind = "Not" -> NotInvert(a, st)
      [] OTHER -> ExpressionInvert(a, st)

---------------------------------------------------------------------------
(* Calls as a caller makes them: on trees it built, each And and Or with  *)
(* a list of its own.                                                     *)

RootX == <<0>>
RootY == <<1>>

\* What a call on the tree self returned and what it left of self, as the
\* caller reads them.
Outcome(self, r) == [res |-> Plain(r.res, r.st), after |-> Plain(self, r.st)]

\* node.optimize()
OptimizeCall(self) == Outcome(self, Optimize(self, EmptyStore))
CallOptimize(node) == OptimizeCall(Labelled(node, RootX))

\* node.optimize().optimize(): the second call runs on what the first left.
OptimizeSecond(first) == IF IsRaise(first.res) THEN first ELSE OptimizeOf(first)
OptimizeTwiceCall(self) ==
    Outcome(self, OptimizeSecond(Optimize(self, EmptyStore)))
CallOptimizeTwice(node) == OptimizeTwiceCall(Labelled(node, RootX))

\* a & b, a | b
AndCall(self, b) == Outcome(self, AndOp(self, Labelled(b, RootY), EmptyStore))
CallAnd(a, b) == AndCall(Labelled(a, RootX), b)
OrCall(self, b) == Outcome(self, OrOp(self, Labelled(b, RootY), EmptyStore))
CallOr(a, b) == OrCall(Labelled(a, RootX), b)

\* ~a
InvertCall(self) == Outcome(self, Invert(self, EmptyStore))
CallInvert(a) == InvertCall(Labelled(a, RootX))

---------------------------------------------------------------------------
(* Definitions and the PreProcessor *)

\* Constant.__init__, Macro.__init__
Constant(name, value) == [kind |-> "Constant", name |-> name, value |-> value]
Macro(name, parameters, expression) ==
    [kind |-> "Macro", name |-> name, parameters |-> parameters,
     expression |-> expression]

\* values[k], for a key the dict holds
DictGet(values, k) ==
    values[CHOOSE i \in 1..Len(values) : values[i].k = k].v

\* dict(zip(parameters, arguments)), each argument the tree the caller
\* holds, its lists named by its place among the arguments.
RECURSIVE Zipped(_, _, _, _)
Zipped(parameters, arguments, i, lookup) ==
    IF i > Len(parameters) \/ i > Len(arguments) THEN lookup
    ELSE Zipped(parameters, arguments, i + 1,
                DictSet(lookup, parameters[i], Labelled(arguments[i], <<i>>)))

\* The callback of Macro.expand on a Field: a bare parameter gives way to
\* its optimized argument.
RECURSIVE MacroWalk(_, _, _), MacroWalkFrom(_, _, _, _)
MacroWalkField(node, lookup, st) ==
    IF HasKey(lookup, node.s) /\ node.kids = <<>>
    THEN Optimize(DictGet(lookup, node.s), st)
    ELSE R(node, st)

\* The rewrite walk of Macro.expand: the children are rewritten in order
\* and the node is built again around them.
MacroWalkNext(node, i, lookup, r) ==
    IF IsRaise(r.res) THEN r
    ELSE MacroWalkFrom([node EXCEPT !.kids[i] = r.res], i + 1, lookup, r.st)
MacroWalkFrom(node, i, lookup, st) ==
    IF i > Len(node.kids) THEN R(node, st)
    ELSE MacroWalkNext(node, i, lookup, MacroWalk(node.kids[i], lookup, st))
MacroWalk(node, lookup, st) ==
    IF node.kind = "Field" THEN MacroWalkField(node, lookup, st)
    ELSE MacroWalkFrom(node, 1, lookup, st)

\* Macro.expand: walker.walk(self.expression).optimize(), as the caller
\* reads the result.
MacroExpanded(r) ==
    IF IsRaise(r.res) THEN r.res
    ELSE Plain(OptimizeOf(r).res, OptimizeOf(r).st)
\* ValueError("Macro {} expected {} arguments but received {}"): the three
\* values the message is formatted from are kept with the exception.
ArityError(name, expected, received) ==
    [Raise("ValueError") EXCEPT
        !.kids = <<String(name), Number(expected), Number(received)>>]

\* Macro.expand without the check of the number of arguments.
MacroExpandUnchecked(macro, arguments) ==
    MacroExpanded(
        MacroWalk(macro.expression,
                  Zipped(macro.parameters, arguments, 1, <<>>),
                  EmptyStore))

MacroExpand(macro, arguments) ==
    IF Len(arguments) # Len(macro.parameters)
    THEN ArityError(macro.name, Len(macro.parameters), Len(arguments))
    ELSE MacroExpanded(
             MacroWalk(macro.expression,
                       Zipped(macro.parameters, arguments, 1, <<>>),
                       EmptyStore))

\* _walk_field that does not look at the path of the Field.
WalkFieldAnyPath(node, cs) ==
    IF HasKey(cs, node.s) THEN DictGet(cs, node.s).value ELSE node

\* PreProcessorWalker._walk_field
WalkField(node, cs) ==
    IF HasKey(cs, node.s) /\ node.kids = <<>>
    THEN DictGet(cs, node.s).value
    ELSE node

\* PreProcessorWalker: the rewrite walk of PreProcessor.expand over the
\* tables cs (constants) and ms (macros).
RECURSIVE Walk(_, _, _), WalkFrom(_, _, _, _)
WalkNext(node, i, cs, ms, walked) ==
    IF IsRaise(walked) THEN walked
    ELSE WalkFrom([node EXCEPT !.kids[i] = walked], i + 1, cs, ms)
WalkFrom(node, i, cs, ms) ==
    IF i > Len(node.kids) THEN node
    ELSE WalkNext(node, i, cs, ms, Walk(node.kids[i], cs, ms))

\* PreProcessorWalker._walk_function_call: walked is the call with its
\* arguments walked.
\* (WalkFunctionCallUnwalked hands the macro the arguments as they are.)
WalkedCall(macro, walked) ==
    IF IsRaise(walked) THEN walked ELSE MacroExpand(macro, walked.kids)
WalkFunctionCallUnwalked(node, cs, ms) ==
    IF HasKey(ms, node.s)
    THEN WalkedCall(DictGet(ms, node.s), node)
    ELSE WalkFrom(node, 1, cs, ms)
WalkFunctionCall(node, cs, ms) ==
    IF HasKey(ms, node.s)
    THEN WalkedCall(DictGet(ms, node.s), WalkFrom(node, 1, cs, ms))
    ELSE WalkFrom(node, 1, cs, ms)

Walk(node, cs, ms) ==
    CASE node.kind = "Field" -> WalkField(node, cs)
      [] node.kind = "FunctionCall" -> WalkFunctionCall(node, cs, ms)
      [] OTHER -> WalkFrom(node, 1, cs, ms)

\* The walk over a Macro definition: the Macro built again around its
\* walked expression.
WalkedMacro(definition, expression) ==
    IF IsRaise(expression) THEN expression
    ELSE Macro(definition.name, definition.parameters, expression)

\* PreProcessor.expand
Expand(root, cs, ms) ==
    IF cs = <<>> /\ ms = <<>> THEN root
    ELSE IF root.kind = "Macro"
         THEN WalkedMacro(root, Walk(root.expression, cs, ms))
         ELSE Walk(root, cs, ms)

\* What add_definition leaves: the two tables and the error it raised.
Tables(cs, ms, error) == [constants |-> cs, macros |-> ms, raised |-> error]

\* self.macros[name] = expanded_macro
MacroAdded(cs, ms, name, expanded_macro) ==
    IF IsRaise(expanded_macro) THEN Tables(cs, ms, expanded_macro.s)
    ELSE Tables(cs, DictSet(ms, name, expanded_macro), "")

\* add_definition that binds a Constant without looking for its name.
AddDefinitionUnchecked(cs, ms, definition) ==
    IF definition.kind = "Macro"
    THEN MacroAdded(cs, ms, definition.name, Expand(definition, cs, ms))
    ELSE Tables(DictSet(cs, definition.name, definition), ms, "")

\* add_definition that stores a macro as it was given, not expanded.
AddDefinitionLazy(cs, ms, definition) ==
    IF definition.kind = "Macro"
    THEN MacroAdded(cs, ms, definition.name, definition)
    ELSE IF HasKey(cs, definition.name)
         THEN Tables(cs, ms, "KeyError")
         ELSE Tables(DictSet(cs, definition.name, definition), ms, "")

\* PreProcessor.add_definition
AddDefinition(cs, ms, definition) ==
    IF definition.kind = "Macro"
    THEN MacroAdded(cs, ms, definition.name, Expand(definition, cs, ms))
    ELSE IF HasKey(cs, definition.name)
         THEN Tables(cs, ms, "KeyError")
         ELSE Tables(DictSet(cs, definition.name, definition), ms, "")

\* A PreProcessor() that takes over none of the definitions.
CopyEmpty(cs, ms) ==
    [kind |-> "PreProcessor", constants |-> <<>>, macros |-> <<>>]

\* PreProcessor.copy: a new PreProcessor, its two tables empty dicts of
\* their own, updated with the entries of self.constants and self.macros
Copy(cs, ms) ==
    LET RECURSIVE Update(_, _)
        Update(table, other) ==
            IF other = <<>> THEN table
            ELSE Update(DictSet(table, Head(other).k, Head(other).v),
                        Tail(other))
    IN  [kind |-> "PreProcessor", constants |-> Update(<<>>, cs),
         macros |-> Update(<<>>, ms)]

---------------------------------------------------------------------------
(* The expressions the model builds *)

FieldF == Field("f", <<>>)
FieldG == Field("g", <<>>)
Comparators == {"<", "<=", "==", "!=", ">=", ">"}
Operators == {"*", "/", "%", "+", "-"}

\* The number of terms the Not, And and Or nodes of a tree hold together.
RECURSIVE SumTerms(_, _)
RECURSIVE CountTerms(_)
SumTerms(kids, i) ==
    IF i > Len(kids) THEN 0 ELSE CountTerms(kids[i]) + SumTerms(kids, i + 1)
CountTerms(node) ==
    (IF node.kind \in {"Not", "And", "Or"} THEN Len(node.kids) ELSE 0)
    + SumTerms(node.kids, 1)

\* At most this many terms in the Not, And and Or nodes of a tree the model
\* builds.
MaxTerms == 4

\* The largest Number the model writes in a tree.
MaxNumber == 2

\* The trees building starts from: literals, a field, comparisons and sets.
BaseLiterals == {Number(1), String("A"), BoolTrue, BoolFalse, Null}
BaseComparisons ==
    {Comparison(FieldF, c, Number(1)) : c \in {"==", "!=", "<", ">="}}
    \cup {Comparison(Number(1), "==", Number(1))}
BaseInSets ==
    {InSet(FieldF, <<Number(1)>>), InSet(FieldF, <<Number(1), Number(1)>>),
     InSet(FieldF, <<Number(1), FieldG>>)}
BaseTrees == {FieldF} \cup BaseLiterals \cup BaseComparisons \cup BaseInSets

\* The terms a compound is built with, and the right operands of & and |.
Operands ==
    {FieldG, BoolTrue, BoolFalse, Comparison(FieldF, "<", Number(MaxNumber))}

---------------------------------------------------------------------------
(* The optimizer's state machine: build a tree, then call an operation *)

NoPreProcessor == constants = <<>> /\ macros = <<>> /\ raised = ""

InitOpt ==
    /\ py3 = TRUE
    /\ x \in BaseTrees
    /\ y = NoNode
    /\ op = "new"
    /\ res = NoNode
    /\ xAfter = x
    /\ NoPreProcessor

Built(tree) ==
    /\ CountTerms(tree) <= MaxTerms
    /\ x' = tree
    /\ y' = NoNode
    /\ op' = "build"
    /\ res' = NoNode
    /\ xAfter' = tree
    /\ UNCHANGED <<py3, constants, macros, raised>>

\* Not.__init__
BuildNot == Built(Not(x))

\* BaseCompound.__init__ for And: one term, two terms, or one more term.
BuildAnd ==
    \/ Built(And(<<x>>))
    \/ \E t \in Operands :
          \/ Built(And(<<x, t>>))
          \/ Built(And(<<t, x>>))
          \/ x.kind = "And" /\ Built(And(Append(x.kids, t)))

\* BaseCompound.__init__ for Or.
BuildOr ==
    \/ Built(Or(<<x>>))
    \/ \E t \in Operands :
          \/ Built(Or(<<x, t>>))
          \/ Built(Or(<<t, x>>))
          \/ x.kind = "Or" /\ Built(Or(Append(x.kids, t)))

Called(name, operand, call) ==
    /\ op' = name
    /\ y' = operand
    /\ res' = call.res
    /\ xAfter' = call.after
    /\ UNCHANGED <<py3, x, constants, macros, raised>>

\* x.optimize()
OptimizeStep ==
    /\ op \in {"new", "build"}
    /\ Called("optimize", NoNode, CallOptimize(x))

\* x.optimize().optimize(): y keeps what the first call returned.
OptimizeAgain ==
    /\ op = "optimize"
    /\ ~IsRaise(res)
    /\ Called("optimize2", res, CallOptimizeTwice(x))

\* x & t for a right operand t of the set operands
AndWith(operands) ==
    /\ op \in {"new", "build"}
    /\ \E t \in operands : Called("and", t, CallAnd(x, t))

\* x | t
OrWith(operands) ==
    /\ op \in {"new", "build"}
    /\ \E t \in operands : Called("or", t, CallOr(x, t))

AndStep == AndWith(Operands)
OrStep == OrWith(Operands)

\* ~x
InvertStep ==
    /\ op \in {"new", "build"}
    /\ Called("invert", NoNode, CallInvert(x))

NextOpt ==
    \/ BuildNot
    \/ BuildAnd
    \/ BuildOr
    \/ OptimizeStep
    \/ OptimizeAgain
    \/ AndStep
    \/ OrStep
    \/ InvertStep

SpecOpt == InitOpt /\ [][NextOpt]_vars

---------------------------------------------------------------------------
(* Properties of the optimizer *)

\* C1: optimize is idempotent: optimizing what x.optimize() returned
\* returns a structurally equal node.
C1_OptimizeIdempotent == op = "optimize2" => res = y

\* a.optimize() & b.optimize() and a.optimize() | b.optimize()
AndOfOptimized(a, b) == CallAnd(CallOptimize(a).res, CallOptimize(b).res).res
OrOfOptimized(a, b) == CallOr(CallOptimize(a).res, CallOptimize(b).res).res

\* C2: And([a, b]).optimize() equals a.optimize() & b.optimize(), and
\* Or([a, b]).optimize() equals a.optimize() | b.optimize().
C2_OptimizeIsPairwise ==
    (op = "optimize" /\ x.kind \in {"And", "Or"} /\ Len(x.kids) = 2)
    => res = IF x.kind = "And" THEN AndOfOptimized(x.kids[1], x.kids[2])
             ELSE OrOfOptimized(x.kids[1], x.kids[2])

\* C3: double negation cancels: Not(Not(t)).optimize() equals t.optimize(),
\* for every t, a Literal that is no Boolean included.
C3_DoubleNegation ==
    (op = "optimize" /\ x.kind = "Not" /\ Term(x).kind = "Not")
    => res = CallOptimize(Term(Term(x))).res

\* C4: optimize, & and | leave their operand as it was: after the call the
\* tree at x is structurally equal to the tree before the call.
C4_OperandsNotMutated == op \in {"optimize", "and", "or"} => xAfter = x

\* The values a field takes when an expression is evaluated.
FieldValues == {Number(n) : n \in 0..MaxNumber}
Envs == [{"f", "g"} -> FieldValues]

\* Whether the comparator holds between two literals: literals of different
\* kinds are unequal and unordered.
Holds(comparator, a, b) ==
    IF a.kind # b.kind THEN comparator = "!="
    ELSE Compare(comparator,
                 IF a.kind = "String" THEN PyStr(Lower(a.s)) ELSE ValueOf(a),
                 IF b.kind = "String" THEN PyStr(Lower(b.s)) ELSE ValueOf(b))

\* The literal an expression evaluates to when the fields hold env.
RECURSIVE Eval(_, _)
Member(value, candidates, env) ==
    \E i \in 1..Len(candidates) : Holds("==", value, Eval(candidates[i], env))
Eval(e, env) ==
    CASE IsLiteral(e) -> e
      [] e.kind = "Field" -> env[e.s]
      [] e.kind = "Comparison" ->
            Boolean(PyBool(Holds(e.s, Eval(Left(e), env), Eval(Right(e), env))))
      [] e.kind = "InSet" ->
            Boolean(PyBool(Member(Eval(Expression_(e), env), Container(e), env)))
      [] e.kind = "Not" ->
            Boolean(PyBool(~Truthy(ValueOf(Eval(Term(e), env)))))
      [] e.kind = "And" ->
            Boolean(PyBool(\A i \in 1..Len(e.kids) :
                               Truthy(ValueOf(Eval(e.kids[i], env)))))
      [] e.kind = "Or" ->
            Boolean(PyBool(\E i \in 1..Len(e.kids) :
                               Truthy(ValueOf(Eval(e.kids[i], env)))))
      [] OTHER -> Null
Truth(e, env) == Truthy(ValueOf(Eval(e, env)))

\* C5: optimize preserves meaning: whatever values the fields hold,
\* x.optimize() is true exactly when x is.
C5_OptimizePreservesMeaning ==
    (op = "optimize" /\ ~IsRaise(res))
    => \A env \in Envs : Truth(res, env) = Truth(x, env)

---------------------------------------------------------------------------
(* MathOperation.optimize on its own: every operator on pairs of numbers *)

Half == Lit("Number", PyNum(1, 2))
MathNumbers == {Number(n) : n \in (0 - MaxNumber)..MaxNumber} \cup {Half}

\* Two Number literals under each operator, and a + (0 - b) over fields.
MathTrees ==
    {MathOperation(a, o, b) : a \in MathNumbers, o \in Operators, b \in MathNumbers}
    \cup {MathOperation(FieldF, o1, MathOperation(Number(0), o2, FieldG)) :
              o1 \in {"+", "-"}, o2 \in {"+", "-"}}

InitMath ==
    /\ py3 = TRUE
    /\ x \in MathTrees
    /\ y = NoNode
    /\ op = "new"
    /\ res = NoNode
    /\ xAfter = x
    /\ NoPreProcessor

NextMath ==
    \/ OptimizeStep
    \/ OptimizeAgain

SpecMath == InitMath /\ [][NextMath]_vars

\* Whether the number r is a operator b, stated on the fractions without
\* computing the result: r is the sum, difference, product or quotient, or
\* for % the remainder a - q * b of an integer q that has the sign of b and
\* is smaller than b in magnitude.
IsResult(operator, a, b, r) ==
    CASE operator = "+" -> r.n * a.d * b.d = (a.n * b.d + b.n * a.d) * r.d
      [] operator = "-" -> r.n * a.d * b.d = (a.n * b.d - b.n * a.d) * r.d
      [] operator = "*" -> r.n * a.d * b.d = a.n * b.n * r.d
      [] operator = "/" -> r.n * a.d * b.n = a.n * b.d * r.d
      [] OTHER ->
            /\ \E q \in (0 - 2 * (MaxNumber + 1))..(2 * (MaxNumber + 1)) :
                   r.n * a.d * b.d = (a.n * b.d - q * b.n * a.d) * r.d
            /\ IF b.n > 0 THEN r.n >= 0 /\ r.n * b.d < b.n * r.d
               ELSE r.n <= 0 /\ r.n * b.d > b.n * r.d

\* C6: a MathOperation of two Number literals that divides or takes the
\* remainder by zero is returned as it is, the same operator and operands,
\* and raises nothing; every other one folds to the single Number that
\* holds the arithmetic result.
C6_ZeroDivisionNotFolded ==
    (op = "optimize" /\ x.kind = "MathOperation"
        /\ Left(x).kind = "Number" /\ Right(x).kind = "Number")
    => IF x.s \in {"/", "%"} /\ Right(x).n = 0
       THEN res = x
       ELSE /\ res.kind = "Number" /\ res.vt = "num" /\ res.d > 0
            /\ res.kids = <<>>
            /\ IsResult(x.s, Left(x), Right(x), res)

\* A remainder by zero was asked for and the MathOperation came back.
C6_Witness ==
    /\ op = "optimize"
    /\ x = MathOperation(Number(1), "%", Number(0))
    /\ res = x

---------------------------------------------------------------------------
(* Comparison.optimize on its own: two literals, on either interpreter *)

CmpLiterals ==
    {String("A"), String("a"), String("b"), Number(0), Number(1),
     BoolTrue, BoolFalse, Null}

CmpTrees ==
    {Comparison(a, c, b) : a \in CmpLiterals, c \in Comparators, b \in CmpLiterals}
    \cup {Comparison(FieldF, c, FieldF) : c \in Comparators}

InitCmp ==
    /\ py3 \in BOOLEAN
    /\ x \in CmpTrees
    /\ y = NoNode
    /\ op = "new"
    /\ res = NoNode
    /\ xAfter = x
    /\ NoPreProcessor

NextCmp ==
    \/ OptimizeStep
    \/ OptimizeAgain
    \/ InvertStep

SpecCmp == InitCmp /\ [][NextCmp]_vars

\* C7: a Comparison of two Literals always folds to a Boolean: of two
\* literals of different kinds to Boolean(true) exactly for !=, of two of
\* the same kind to the Boolean of the comparator applied to the values,
\* Strings without regard to case.
C7_LiteralComparisonFolds ==
    (op = "optimize" /\ x.kind = "Comparison"
        /\ IsLiteral(Left(x)) /\ IsLiteral(Right(x)))
    => res = Boolean(PyBool(Holds(x.s, Left(x), Right(x))))

---------------------------------------------------------------------------
(* InSet on its own: optimize, and & and | with a second set *)

\* At most this many candidates in the container of the left set.
MaxLen == 3

\* At most this many candidates in the container of the right set.
MaxRightLen == 2

SetLiterals == {Number(1), Number(MaxNumber), BoolTrue, String("A"), String("a")}
SetCandidates == SetLiterals \cup {FieldG}

Containers(candidates, n) == UNION {[1..k -> candidates] : k \in 0..n}

SetTrees ==
    {InSet(FieldF, c) : c \in Containers(SetCandidates, MaxLen)}
    \cup {InSet(Number(1), c) : c \in Containers(SetCandidates, 1)}

SetOperands ==
    {InSet(FieldF, c) : c \in Containers(SetLiterals, MaxRightLen)}
    \cup {InSet(FieldG, <<Number(1)>>), Not(InSet(FieldF, <<Number(1)>>)),
          Comparison(FieldF, "==", Number(1)),
          Comparison(FieldF, "!=", Number(1))}

InitSet ==
    /\ py3 = TRUE
    /\ x \in SetTrees
    /\ y = NoNode
    /\ op = "new"
    /\ res = NoNode
    /\ xAfter = x
    /\ NoPreProcessor

SetAndStep == AndWith(SetOperands)
SetOrStep == OrWith(SetOperands)

NextSet ==
    \/ OptimizeStep
    \/ SetAndStep
    \/ SetOrStep

SpecSet == InitSet /\ [][NextSet]_vars

\* Whether two literals hold the same value: Python's equality of the
\* values, Strings without regard to case.
SameValue(a, b) ==
    (IF a.kind = "String" THEN PyStr(Lower(a.s)) ELSE ValueOf(a))
    = (IF b.kind = "String" THEN PyStr(Lower(b.s)) ELSE ValueOf(b))

Occurs(literal, container) ==
    \E i \in 1..Len(container) :
        IsLiteral(container[i]) /\ SameValue(literal, container[i])

\* The literals of container, each value at its first occurrence only.
RECURSIVE FirstOccurrences(_, _)
FirstOccurrences(container, seen) ==
    IF container = <<>> THEN <<>>
    ELSE IF IsLiteral(Head(container)) /\ ~Occurs(Head(container), seen)
         THEN <<Head(container)>>
              \o FirstOccurrences(Tail(container), Append(seen, Head(container)))
         ELSE FirstOccurrences(Tail(container), seen)

\* The literals of container whose value occurs in other (present = TRUE)
\* or does not (present = FALSE), in the order of container.
RECURSIVE Literals(_, _, _)
Literals(container, other, present) ==
    IF container = <<>> THEN <<>>
    ELSE IF IsLiteral(Head(container))
            /\ Occurs(Head(container), other) = present
         THEN <<Head(container)>> \o Literals(Tail(container), other, present)
         ELSE Literals(Tail(container), other, present)

\* What the set of expression over the deduplicated candidates is to
\* become: the optimized Comparison for one candidate, the InSet for more.
Deduplicated(expression, candidates, result) ==
    IF Len(candidates) = 1
    THEN result = CallOptimize(Comparison(expression, "==", candidates[1])).res
    ELSE Len(candidates) = 0 \/ result = InSet(expression, candidates)

\* C8: InSet.optimize keeps one literal per distinct value, the first
\* occurrence, in first-seen order, followed by the candidates that are no
\* Literal in their order; one candidate left gives the optimized
\* Comparison(expression == candidate).
C8_InSetDeduplicates ==
    (op = "optimize" /\ x.kind = "InSet" /\ ~IsLiteral(Expression_(x))
        /\ \A i \in 1..Len(Container(x)) : Container(x)[i] # Expression_(x))
    => Deduplicated(Expression_(x),
                    FirstOccurrences(Container(x), <<>>) \o Dynamic(Container(x)),
                    res)

\* x and y are sets of literals over the same expression.
TwoLiteralSets ==
    /\ x.kind = "InSet" /\ y.kind = "InSet"
    /\ Expression_(x) = Expression_(y)
    /\ is_literal(x) /\ is_literal(y)

\* C9: for two sets of literals over the same expression, x & y is the
\* optimized set of the literals of x whose value is also in y, in the
\* order of x, and x | y is the optimized set of the literals of x followed
\* by the literals of y not in x.
C9_SetAlgebra ==
    /\ (op = "and" /\ TwoLiteralSets)
       => res = CallOptimize(
                    InSet(Expression_(x),
                          Literals(Container(x), Container(y), TRUE))).res
    /\ (op = "or" /\ TwoLiteralSets)
       => res = CallOptimize(
                    InSet(Expression_(x),
                          Container(x)
                          \o Literals(Container(y), Container(x), FALSE))).res

\* Two sets that share two values, one of them a String in another case,
\* were intersected.
C9_Witness ==
    /\ op = "and"
    /\ y = InSet(FieldF, <<String("a"), Number(1)>>)
    /\ res = InSet(FieldF, <<Number(1), String("A")>>)

---------------------------------------------------------------------------
(* The PreProcessor's state machine: register definitions, expand roots *)

FieldOf(name) == Field(name, <<>>)

ConstantNames == {"c", "d"}
ConstantValues == {Number(1), String("A")}
ConstantDefinitions ==
    {Constant(name, value) : name \in ConstantNames, value \in ConstantValues}

\* m compares its argument with the name c; n calls m, or is the name c.
MacroDefinitions ==
    {Macro("m", <<"a">>, Comparison(FieldOf("a"), "==", FieldOf("c"))),
     Macro("m", <<"a", "b">>, And(<<FieldOf("a"), FieldOf("b")>>)),
     Macro("n", <<"a">>, FunctionCall("m", <<FieldOf("a")>>, FALSE)),
     Macro("n", <<>>, FieldOf("c"))}

Definitions == ConstantDefinitions \cup MacroDefinitions

Roots ==
    {FieldOf("c"), Field("c", <<PathKey(PyStr("a"))>>),
     Comparison(Field("c", <<PathKey(PyInt(0))>>), "==", FieldOf("c")),
     FunctionCall("m", <<FieldOf("d")>>, FALSE),
     Or(<<FunctionCall("n", <<>>, FALSE), FieldOf("d")>>)}

InitPre ==
    /\ py3 = TRUE
    /\ x = NoNode
    /\ y = NoNode
    /\ op = "new"
    /\ res = NoNode
    /\ xAfter = NoNode
    /\ constants = <<>>
    /\ macros = <<>>
    /\ raised = ""

Added(definition, tables) ==
    /\ op' = "add_definition"
    /\ y' = definition
    /\ constants' = tables.constants
    /\ macros' = tables.macros
    /\ raised' = tables.raised
    /\ UNCHANGED <<py3, x, res, xAfter>>

\* preprocessor.add_definition(definition)
AddDefinitionStep ==
    \E definition \in Definitions :
        Added(definition, AddDefinition(constants, macros, definition))

\* preprocessor.expand(root)
ExpandStep ==
    \E root \in Roots :
        /\ op' = "expand"
        /\ x' = root
        /\ res' = Expand(root, constants, macros)
        /\ xAfter' = root
        /\ UNCHANGED <<py3, y, constants, macros, raised>>

NextPre ==
    \/ AddDefinitionStep
    \/ ExpandStep

SpecPre == InitPre /\ [][NextPre]_vars

\* The Constant was registered under a name the table already held.
Redefinition == y'.kind = "Constant" /\ HasKey(constants, y'.name)

\* C10: a Constant name cannot be redefined: registering a Constant under
\* a name the constants table holds raises KeyError and leaves both tables
\* as they were, and every name keeps the Constant first bound to it.
C10_ConstantNotRedefined ==
    [][/\ (op' = "add_definition" /\ Redefinition)
          => (raised' = "KeyError" /\ constants' = constants
              /\ macros' = macros)
       /\ \A i \in 1..Len(constants) :
              i <= Len(constants') /\ constants'[i] = constants[i]]_vars

\* A second Constant named c was refused, with a macro registered.
C10_Witness ==
    /\ op = "add_definition"
    /\ y = Constant("c", String("A"))
    /\ raised = "KeyError"
    /\ constants = <<[k |-> "c", v |-> Constant("c", Number(1))]>>
    /\ macros # <<>>

---------------------------------------------------------------------------
(* Macro.expand on its own: a macro and the arguments of one call *)

\* At most this many arguments in a call of a macro.
MaxArgs == 2

\* Macros of no, one and two parameters; x.y is a Field with a path.
MacroSet ==
    {Macro("zero", <<>>, FieldOf("x")),
     Macro("double", <<"x">>, MathOperation(FieldOf("x"), "+", FieldOf("x"))),
     Macro("path", <<"x">>,
           Comparison(Field("x", <<PathKey(PyStr("y"))>>), "==", FieldOf("x"))),
     Macro("twice", <<"x">>, And(<<FieldOf("x"), FieldOf("x")>>)),
     Macro("both", <<"x", "y">>, Or(<<FieldOf("y"), Not(FieldOf("x"))>>)),
     Macro("less", <<"x", "y">>, Comparison(FieldOf("x"), "<", FieldOf("y")))}

MacroArguments ==
    {Number(1), Number(MaxNumber + 1), FieldF, Not(Not(FieldG)),
     And(<<And(<<FieldF, FieldG>>), FieldF>>)}

InitMacro ==
    /\ py3 = TRUE
    /\ x \in MacroSet
    /\ y \in {FunctionCall(x.name, arguments, FALSE) :
                  arguments \in Containers(MacroArguments, MaxArgs)}
    /\ op = "new"
    /\ res = NoNode
    /\ xAfter = x
    /\ NoPreProcessor

\* x.expand(y.arguments): the macro x with the arguments of the call y
MacroExpandStep ==
    /\ op = "new"
    /\ op' = "expand_macro"
    /\ res' = MacroExpand(x, y.kids)
    /\ UNCHANGED <<py3, x, y, xAfter, constants, macros, raised>>

NextMacro == MacroExpandStep

SpecMacro == InitMacro /\ [][NextMacro]_vars

\* C11: Macro.expand with a number of arguments other than the number of
\* parameters raises the arity error, which carries the macro's name, the
\* number expected and the number received, and returns no tree; with the
\* same number it raises no arity error.
C11_ArityChecked ==
    op = "expand_macro"
    => IF Len(y.kids) # Len(x.parameters)
       THEN res = ArityError(x.name, Len(x.parameters), Len(y.kids))
       ELSE ~(IsRaise(res) /\ res.s = "ValueError")

\* The macro of two parameters was expanded with one argument.
C11_Witness ==
    /\ op = "expand_macro"
    /\ x.name = "both"
    /\ Len(y.kids) = 1
    /\ IsRaise(res)

\* The body with every bare Field that names a parameter replaced by the
\* optimized argument of that parameter, every other node as it is.
RECURSIVE Replaced(_, _, _)
Replaced(node, parameters, arguments) ==
    IF node.kind = "Field" /\ node.kids = <<>>
       /\ \E i \in 1..Len(parameters) : parameters[i] = node.s
    THEN CallOptimize(
             arguments[CHOOSE i \in 1..Len(parameters) : parameters[i] = node.s]).res
    ELSE [node EXCEPT
             !.kids = [i \in 1..Len(node.kids) |->
                          Replaced(node.kids[i], parameters, arguments)]]

\* C12: Macro.expand with as many arguments as parameters returns the
\* optimized result of replacing, in the body, every Field with an empty
\* path whose base is a parameter by the optimized argument of that
\* parameter, every other node unchanged.
C12_ExpandSubstitutes ==
    (op = "expand_macro" /\ Len(y.kids) = Len(x.parameters))
    => res = CallOptimize(Replaced(x.expression, x.parameters, y.kids)).res

\* The calls of a registered macro with a literal argument for each of
\* its parameters.
LiteralCalls(macro) ==
    {FunctionCall(macro.name, arguments, FALSE) :
         arguments \in [1..Len(macro.parameters) -> ConstantValues]}

\* Every call with literal arguments of a registered macro other than the
\* one being registered expands after the step as it did before.
ExpansionsKept ==
    \A k \in 1..Len(macros) :
        (y'.kind = "Macro" /\ y'.name = macros[k].k)
        \/ \A call \in LiteralCalls(macros[k].v) :
               Expand(call, constants', macros') = Expand(call, constants, macros)

\* C13: macro bodies are expanded eagerly at registration: add_definition
\* stores for a macro its body expanded against the constants and macros
\* registered before it, and no later add_definition (of a macro the body
\* referenced, of a constant the body names) changes what expand returns
\* for a call of that macro with the same literal arguments.
C13_EagerExpansion ==
    [][op' = "add_definition"
       => /\ (y'.kind = "Macro" /\ raised' = "")
             => DictGet(macros', y'.name) = Expand(y', constants, macros)
          /\ ExpansionsKept]_vars

\* n was registered while m compared its argument with the constant c, and
\* m was registered again with two parameters: n keeps the comparison.
C13_Witness ==
    /\ op = "add_definition"
    /\ y.kind = "Macro" /\ y.name = "m" /\ Len(y.parameters) = 2
    /\ raised = ""
    /\ HasKey(macros, "n")
    /\ DictGet(macros, "n").expression
           = Comparison(FieldOf("a"), "==", Number(1))

\* What expand is to return for a Field: the value of the constant its
\* base names when it has no path, the Field itself otherwise.
Substituted(field, cs) ==
    IF field.kids = <<>> /\ HasKey(cs, field.s)
    THEN DictGet(cs, field.s).value
    ELSE field

\* C14: expand substitutes the value of a registered constant for a Field
\* only when the Field has an empty path and its base is the constant's
\* name; a Field with a path (c.a, c[0]) whose base names a registered
\* constant is left as it is, at the root and inside a Comparison.
C14_OnlyBareFieldSubstituted ==
    op = "expand"
    => /\ x.kind = "Field" => res = Substituted(x, constants)
       /\ x.kind = "Comparison"
          => res = Comparison(Substituted(Left(x), constants), x.s,
                              Substituted(Right(x), constants))

\* c[0] == c was expanded with the constant c registered: only the bare c
\* became the value.
C14_Witness ==
    /\ op = "expand"
    /\ x.kind = "Comparison"
    /\ HasKey(constants, "c")
    /\ Left(res) = Left(x)
    /\ IsLiteral(Right(res))

---------------------------------------------------------------------------
(* More properties of the optimizer *)

\* C15: canonical compound form: optimizing an And or Or of at least one
\* term never returns a compound of that kind with no term or one term.
C15_CanonicalCompound ==
    (op = "optimize" /\ x.kind \in {"And", "Or"} /\ Len(x.kids) >= 1)
    => ~(res.kind = x.kind /\ Len(res.kids) <= 1)

\* What a & b is to be when one of the two is a Literal.
AbsorbedAnd(a, b) ==
    IF IsLiteral(a) /\ IsLiteral(b)
    THEN Boolean(PyBool(Truthy(ValueOf(a)) /\ Truthy(ValueOf(b))))
    ELSE IF IsLiteral(a) THEN (IF Truthy(ValueOf(a)) THEN b ELSE BoolFalse)
    ELSE (IF Truthy(ValueOf(b)) THEN a ELSE BoolFalse)

\* What a | b is to be when one of the two is a Literal.
AbsorbedOr(a, b) ==
    IF IsLiteral(a) /\ IsLiteral(b)
    THEN Boolean(PyBool(Truthy(ValueOf(a)) \/ Truthy(ValueOf(b))))
    ELSE IF IsLiteral(a) THEN (IF Truthy(ValueOf(a)) THEN BoolTrue ELSE b)
    ELSE (IF Truthy(ValueOf(b)) THEN BoolTrue ELSE a)

\* C16: pairwise absorption of a Literal, in either order: with a falsy
\* Literal & gives Boolean(false), with a truthy one the other operand;
\* with a truthy Literal | gives Boolean(true), with a falsy one the other
\* operand; two Literals give the Boolean of the logical result.
C16_LiteralAbsorption ==
    /\ (op = "and" /\ (IsLiteral(x) \/ IsLiteral(y))) => res = AbsorbedAnd(x, y)
    /\ (op = "or" /\ (IsLiteral(x) \/ IsLiteral(y))) => res = AbsorbedOr(x, y)

\* [Not(t).optimize() for t in terms]
NegatedTerms(terms) ==
    [i \in 1..Len(terms) |-> CallOptimize(Not(terms[i])).res]

\* C17: De Morgan's law is applied when a negated compound is optimized:
\* Not(And(terms)).optimize() is the Or of the optimized negated terms,
\* Not(Or(terms)).optimize() the And of them, and the result is no Not
\* that wraps an And or Or.
C17_DeMorgan ==
    (op = "optimize" /\ x.kind = "Not" /\ Term(x).kind \in {"And", "Or"})
    => /\ res = IF Term(x).kind = "And" THEN Or(NegatedTerms(Term(x).kids))
                ELSE And(NegatedTerms(Term(x).kids))
       /\ ~(res.kind = "Not" /\ Term(res).kind \in {"And", "Or"})

---------------------------------------------------------------------------
(* Rendering *)

(***************************************************************************)
(* A rendered text is the sequence of its tokens: a name, a keyword, an    *)
(* operator, a digit, a quote, a bracket.  The blanks, line breaks and     *)
(* indentation between tokens are left out: they are all that tells the    *)
(* one-line layout of an InSet or a compound from the multi-line one.      *)
(***************************************************************************)

\* precedence = None (BaseNode; EqlNode): no rank
NoPrecedence == -1

\* self.precedence: the class attribute, for MathOperation the property
Precedence(self) ==
    CASE IsLiteral(self) -> 1
      [] self.kind = "Field" -> 1
      [] self.kind = "FunctionCall" -> 2
      [] self.kind = "MathOperation" ->
            IF self.s \in {"*", "/", "%"} THEN 3 ELSE 4
      [] self.kind \in {"Comparison", "InSet"} -> 5
      [] self.kind = "Not" -> 6
      [] self.kind = "And" -> 7
      [] self.kind = "Or" -> 8
      [] OTHER -> NoPrecedence

\* delim.join(texts)
RECURSIVE Join(_, _)
Join(texts, delim) ==
    IF texts = <<>> THEN <<>>
    ELSE IF Len(texts) = 1 THEN texts[1]
    ELSE texts[1] \o delim \o Join(Tail(texts), delim)

\* to_unicode(value) of a whole number: a sign and the decimal digits
NumberText(value) ==
    LET RECURSIVE Digits(_)
        Digits(n) ==
            IF n < 10
            THEN <<<<"0", "1", "2", "3", "4", "5", "6", "7", "8", "9">>[n + 1]>>
            ELSE Digits(n \div 10) \o Digits(n % 10)
    IN  IF value.n < 0 THEN <<"-">> \o Digits(-value.n) ELSE Digits(value.n)

\* Boolean._render, Null._render, Number._render, String._render (a string
\* of the model holds nothing String.escape rewrites)
LiteralRender(self) ==
    CASE self.kind = "Boolean" ->
            <<IF Truthy(ValueOf(self)) THEN "true" ELSE "false">>
      [] self.kind = "Null" -> <<"null">>
      [] self.kind = "Number" -> NumberText(ValueOf(self))
      [] OTHER -> <<"\"", self.s, "\"">>

\* Field._render: the base, then [n] for a number of the path and .key for
\* any other key
FieldRender(self) ==
    <<self.s>>
    \o Join([i \in 1..Len(self.kids) |->
                IF self.kids[i].vt = "num"
                THEN <<"[">> \o NumberText(self.kids[i]) \o <<"]">>
                ELSE <<".", self.kids[i].s>>],
            <<>>)

\* NamedParams.__init__: kv, the pairs <<key, value>> in insertion order
NamedParams(kv) ==
    Node("NamedParams", "", "", 0, 1,
         [i \in 1..Len(kv) |->
             Node("NamedParam", "", kv[i][1], 0, 1, <<kv[i][2]>>)])

RECURSIVE Render(_, _, _)

\* [v.render(precedence) for v in nodes]
RenderEach(nodes, precedence) ==
    [i \in 1..Len(nodes) |-> Render(nodes[i], precedence, FALSE)]

\* BaseNode.render: the template of the class, every slot that holds a
\* node rendered with self.precedence
\*   FunctionCall   $name($arguments), the arguments joined by ', '
\*   MathOperation  $operator$right when left == Number(0), else
\*                  $left $operator $right
\*   Comparison     $left $comparator $right
\*   Not            not $term
BaseNodeRender(self) ==
    CASE self.kind = "FunctionCall" ->
            <<self.s, "(">>
            \o Join(RenderEach(self.kids, Precedence(self)), <<",">>)
            \o <<")">>
      [] self.kind = "MathOperation" /\ Left(self) = Number(0) ->
            <<self.s>> \o Render(Right(self), Precedence(self), FALSE)
      [] self.kind \in {"MathOperation", "Comparison"} ->
            Render(Left(self), Precedence(self), FALSE) \o <<self.s>>
            \o Render(Right(self), Precedence(self), FALSE)
      [] OTHER -> <<"not">> \o Render(Term(self), Precedence(self), FALSE)

\* FunctionCall._render: base:name(remaining) for a method call
FunctionCallText(self) ==
    IF self.n = 1
    THEN Render(self.kids[1], Precedence(self), FALSE)
         \o <<":", self.s, "(">>
         \o Join(RenderEach(Tail(self.kids), Precedence(self)), <<",">>)
         \o <<")">>
    ELSE BaseNodeRender(self)

\* InSet._render(negate): the candidates are rendered without a precedence
InSetText(self, negate) ==
    Render(Expression_(self), Precedence(self), FALSE)
    \o (IF negate THEN <<"not", "in">> ELSE <<"in">>)
    \o <<"(">>
    \o Join(RenderEach(Container(self), NoPrecedence), <<",">>)
    \o <<")">>

\* BaseCompound._render
CompoundText(self) ==
    Join(RenderEach(self.kids, Precedence(self)),
         <<IF self.kind = "And" THEN "and" ELSE "or">>)

\* NamedParams._render: every value is rendered with Literal.precedence
NamedParamsText(self) ==
    Join([i \in 1..Len(self.kids) |->
             <<self.kids[i].s, "=">>
             \o Render(Term(self.kids[i]), Precedence(Null), FALSE)],
         <<>>)

\* self._render(**kwargs)
RenderText(self, negate) ==
    CASE IsLiteral(self) -> LiteralRender(self)
      [] self.kind = "Field" -> FieldRender(self)
      [] self.kind = "FunctionCall" -> FunctionCallText(self)
      [] self.kind \in {"MathOperation", "Comparison", "Not"} ->
            BaseNodeRender(self)
      [] self.kind = "InSet" -> InSetText(self, negate)
      [] self.kind \in {"And", "Or"} -> CompoundText(self)
      [] OTHER -> NamedParamsText(self)

\* EqlNode.render: parentheses when the node ranks above the precedence
EqlNodeRender(self, precedence, negate) ==
    IF /\ precedence # NoPrecedence
       /\ Precedence(self) # NoPrecedence
       /\ Precedence(self) > precedence
    THEN <<"(">> \o RenderText(self, negate) \o <<")">>
    ELSE RenderText(self, negate)

\* FunctionCall.render of a function with no alternate rendering: the
\* precedence it was given is not handed on to EqlNode.render
FunctionCallRender(self, precedence) ==
    EqlNodeRender(self, NoPrecedence, FALSE)

\* Not.render: not (x in (...)) is x not in (...), not wildcard(x, "s") is
\* x != "s", both rendered with the precedence the Not was given
NotRender(self, precedence) ==
    IF Term(self).kind = "InSet"
    THEN Render(Term(self), precedence, TRUE)
    ELSE IF /\ Term(self).kind = "FunctionCall"
            /\ Term(self).s = "wildcard"
            /\ Len(Term(self).kids) = 2
            /\ Term(self).kids[2].kind = "String"
    THEN Render(Comparison(Term(self).kids[1], "!=", Term(self).kids[2]),
                precedence, FALSE)
    ELSE EqlNodeRender(self, precedence, FALSE)

\* node.render(precedence, negate=negate)
Render(self, precedence, negate) ==
    CASE self.kind = "FunctionCall" -> FunctionCallRender(self, precedence)
      [] self.kind = "Not" -> NotRender(self, precedence)
      [] OTHER -> EqlNodeRender(self, precedence, negate)

\* The precedence self hands to the children it renders.
ChildPrecedence(self) ==
    IF self.kind = "NamedParams" THEN Precedence(Null) ELSE Precedence(self)

---------------------------------------------------------------------------
(* The renderer: a node x renders itself and, on the way, its child y. *)

RenderChildren ==
    {Number(MaxNumber), String("A"), FieldF,
     Field("f", <<PathKey(PyStr("a")), PathKey(PyInt(0))>>),
     FunctionCall("h", <<FieldF>>, FALSE),
     FunctionCall("h", <<FieldF, Number(1)>>, TRUE),
     MathOperation(FieldF, "*", Number(MaxNumber)),
     MathOperation(FieldF, "+", Number(1)),
     MathOperation(Number(0), "-", FieldF),
     Comparison(FieldF, "==", Number(1)),
     InSet(FieldF, <<Number(1), String("A")>>),
     Not(FieldF),
     Not(InSet(FieldF, <<Number(1)>>)),
     Not(FunctionCall("wildcard", <<FieldF, String("A")>>, FALSE)),
     And(<<FieldF, Or(<<FieldF, FieldG>>)>>),
     Or(<<And(<<FieldF, FieldG>>), FieldG>>)}

\* The nodes that render child with a precedence.
RenderParents(child) ==
    {FunctionCall("h", <<child>>, FALSE),
     FunctionCall("h", <<child, FieldG>>, TRUE),
     MathOperation(child, "*", FieldG),
     MathOperation(FieldG, "+", child),
     MathOperation(Number(0), "-", child),
     Comparison(child, "<", FieldG),
     InSet(child, <<Number(1)>>),
     Not(child),
     And(<<child, FieldG>>),
     Or(<<FieldG, child>>),
     NamedParams(<<<<"k", child>>>>)}

InitRender ==
    /\ py3 = TRUE
    /\ y \in RenderChildren
    /\ x \in RenderParents(y)
    /\ op = "new"
    /\ res = <<>>
    /\ xAfter = <<>>
    /\ NoPreProcessor

\* x.render(): res is the text of x, xAfter the text the call
\* y.render(precedence) inside it returned to x
RenderStep ==
    /\ op = "new"
    /\ op' = "render"
    /\ res' = Render(x, NoPrecedence, FALSE)
    /\ xAfter' = Render(y, ChildPrecedence(x), FALSE)
    /\ UNCHANGED <<py3, x, y, constants, macros, raised>>

NextRender == RenderStep

SpecRender == InitRender /\ [][NextRender]_vars

\* The ranks of the syntax classes, lowest first.
Rank(node) ==
    CASE IsLiteral(node) \/ node.kind = "Field" -> 1
      [] node.kind = "FunctionCall" -> 2
      [] node.kind = "MathOperation" /\ node.s \in {"*", "/", "%"} -> 3
      [] node.kind = "MathOperation" -> 4
      [] node.kind \in {"Comparison", "InSet"} -> 5
      [] node.kind = "Not" -> 6
      [] node.kind = "And" -> 7
      [] OTHER -> 8

\* rendered, in parentheses
Parenthesized(rendered) == <<"(">> \o rendered \o <<")">>

\* C18: a child rendered with the contextual rank p comes back in
\* parentheses exactly when its own rank is strictly greater than p, whatever
\* the kind of the child, FunctionCall and MathOperation included.
C18_ParenthesesByRank ==
    op = "render"
    => xAfter = IF Rank(y) > ChildPrecedence(x)
                THEN Parenthesized(Render(y, NoPrecedence, FALSE))
                ELSE Render(y, NoPrecedence, FALSE)

---------------------------------------------------------------------------
(* Time ranges *)

\* TimeRange.__init__: delta, held as its total_seconds()
TimeRange(seconds) == Node("TimeRange", "num", "", seconds.n, seconds.d, <<>>)

\* TimeRange._render: the arguments of '{}{}'.format(decimal, unit), the
\* number printed (an int when it is whole, a float otherwise) and the unit
\* letter after it
TimeRangeRender(self) ==
    LET interval == ValueOf(self)
        second == PyInt(1)
        minute == PyMul(PyInt(60), second)
        hour == PyMul(minute, PyInt(60))
        day == PyMul(hour, PyInt(24))
    IN  IF ~PyLess(interval, day)
        THEN [decimal |-> PyTrueDiv(interval, day), unit |-> "d"]
        ELSE IF ~PyLess(interval, hour)
        THEN [decimal |-> PyTrueDiv(interval, hour), unit |-> "h"]
        ELSE IF /\ ~PyLess(interval, minute)
                /\ \/ PyModulo(interval, minute) = PyInt(0)
                   \/ PyModulo(interval, second) # PyInt(0)
        THEN [decimal |-> PyTrueDiv(interval, minute), unit |-> "m"]
        ELSE [decimal |-> interval, unit |-> "s"]

\* The most days, hours, minutes and seconds a duration of the model adds up.
MaxUnits == 2

\* The durations: whole seconds, and the half seconds after them.
Durations ==
    {Frac(2 * (((days * 24 + hours) * 60 + minutes) * 60 + seconds) + half, 2) :
        days \in 0..MaxUnits, hours \in 0..MaxUnits, minutes \in 0..MaxUnits,
        seconds \in 0..MaxUnits, half \in 0..1}

InitTime ==
    /\ py3 = TRUE
    /\ x \in {TimeRange(seconds) : seconds \in Durations}
    /\ y = NoNode
    /\ op = "new"
    /\ res = NoNode
    /\ xAfter = x
    /\ NoPreProcessor

\* x.render()
TimeRenderStep ==
    /\ op = "new"
    /\ op' = "render"
    /\ res' = TimeRangeRender(x)
    /\ UNCHANGED <<py3, x, y, xAfter, constants, macros, raised>>

NextTime == TimeRenderStep

SpecTime == InitTime /\ [][NextTime]_vars

\* The seconds in a day, an hour, a minute and a second, by unit letter.
UnitSeconds ==
    [d |-> 24 * 60 * 60, h |-> 60 * 60, m |-> 60, s |-> 1]

\* The largest unit that divides a whole number of seconds evenly.
LargestUnit(seconds) ==
    CHOOSE u \in DOMAIN UnitSeconds :
        /\ seconds % UnitSeconds[u] = 0
        /\ \A v \in DOMAIN UnitSeconds :
               seconds % UnitSeconds[v] = 0 => UnitSeconds[v] <= UnitSeconds[u]

\* C19: a time range of a whole, positive number of seconds is rendered in
\* the largest of day, hour, minute and second that divides it evenly, as
\* the integer quotient followed by the unit letter (90000 s is 25h).
C19_LargestEvenUnit ==
    (op = "render" /\ x.d = 1 /\ x.n > 0)
    => /\ res.unit = LargestUnit(x.n)
       /\ res.decimal = PyInt(x.n \div UnitSeconds[LargestUnit(x.n)])

---------------------------------------------------------------------------
(* FunctionCall.optimize on its own: known and unknown functions *)

CallNames == {"add", "unsupported", "h"}

CallArguments ==
    {Number(1), Number(MaxNumber), String("A"), Null, FieldF,
     Comparison(Number(1), "==", Number(1)),
     MathOperation(Number(1), "+", Number(MaxNumber))}

CallTrees ==
    {FunctionCall(name, arguments, as_method) :
        name \in CallNames, arguments \in Containers(CallArguments, MaxArgs),
        as_method \in BOOLEAN}

InitCall ==
    /\ py3 = TRUE
    /\ x \in CallTrees
    /\ y = NoNode
    /\ op = "new"
    /\ res = NoNode
    /\ xAfter = x
    /\ NoPreProcessor

NextCall ==
    \/ OptimizeStep
    \/ OptimizeAgain

SpecCall == InitCall /\ [][NextCall]_vars

\* The arguments of the call, each optimized on its own.
OptimizedArguments(call) ==
    [i \in 1..Len(call.kids) |-> CallOptimize(call.kids[i]).res]

\* What a call with the optimized arguments is to become, given what the
\* callback does with their values.
Evaluated(call, arguments, ran) ==
    IF ~get_function(call.s) \/ \E i \in 1..Len(arguments) : ~IsLiteral(arguments[i])
    THEN FunctionCall(call.s, arguments, call.n = 1)
    ELSE IF ran.raised = ""
    THEN IF ran.rv.vt = "num" THEN Lit("Number", ran.rv) ELSE Lit("String", ran.rv)
    ELSE IF ran.raised = "NotImplementedError"
    THEN FunctionCall(call.s, arguments, call.n = 1)
    ELSE Raise(ran.raised)

\* C20: FunctionCall.optimize optimizes the arguments; when the function is
\* known and every optimized argument is a Literal the callback runs on the
\* values, and a value it returns becomes the Literal result, a
\* NotImplementedError leaves the FunctionCall with the same name and method
\* flag and the optimized arguments, any other failure propagates; when the
\* function is unknown or an argument is no Literal the callback is not run
\* and that FunctionCall is the result.
C20_FunctionCallOptimize ==
    op = "optimize"
    => res = Evaluated(x, OptimizedArguments(x),
                       Run(x.s, [i \in 1..Len(x.kids) |->
                                    ValueOf(OptimizedArguments(x)[i])]))

\* The callback of a known function failed on literal arguments and the
\* failure came out of optimize.
C20_Witness ==
    /\ op = "optimize"
    /\ x = FunctionCall("add", <<Number(1), String("A")>>, FALSE)
    /\ res = Raise("TypeError")

---------------------------------------------------------------------------
(* A PreProcessor and its copy: constants and macros are the tables of the *)
(* original, res is the PreProcessor copy() returned.                      *)

CopyDefinitions ==
    ConstantDefinitions
    \cup {Macro("m", <<"a">>, Comparison(FieldOf("a"), "==", FieldOf("c"))),
          Macro("n", <<"a">>, FunctionCall("m", <<FieldOf("a")>>, FALSE))}

\* preprocessor.add_definition(definition) on the original
OriginalAddDefinitionStep ==
    \E definition \in CopyDefinitions :
        Added(definition, AddDefinition(constants, macros, definition))

\* preprocessor.copy()
CopyStep ==
    /\ op' = "copy"
    /\ res' = Copy(constants, macros)
    /\ raised' = ""
    /\ UNCHANGED <<py3, x, y, xAfter, constants, macros>>

\* add_definition(definition) on the PreProcessor copy() returned
CopyAddDefinitionStep ==
    /\ res.kind = "PreProcessor"
    /\ \E definition \in CopyDefinitions :
         \E tables \in {AddDefinition(res.constants, res.macros, definition)} :
           /\ op' = "copy.add_definition"
           /\ y' = definition
           /\ res' = [res EXCEPT !.constants = tables.constants,
                                 !.macros = tables.macros]
           /\ raised' = tables.raised
           /\ UNCHANGED <<py3, x, xAfter, constants, macros>>

NextCopy ==
    \/ OriginalAddDefinitionStep
    \/ CopyStep
    \/ CopyAddDefinitionStep

SpecCopy == InitPre /\ [][NextCopy]_vars

---------------------------------------------------------------------------
(* The PreProcessor with its definitions registered in order: a definition *)
(* is registered once every name its body refers to is registered.         *)

\* The names a tree refers to: the base of every Field without a path that
\* is no parameter, and the name of every FunctionCall.
RECURSIVE Referenced(_, _)
Referenced(node, parameters) ==
    (IF node.kind = "Field" /\ node.kids = <<>>
        /\ \A i \in 1..Len(parameters) : parameters[i] # node.s
     THEN {node.s}
     ELSE IF node.kind = "FunctionCall" THEN {node.s} ELSE {})
    \cup UNION {Referenced(node.kids[i], parameters) : i \in 1..Len(node.kids)}

\* Every name of the model that names a Constant or a Macro.
DefinitionNames == ConstantNames \cup {"m", "n"}

\* The definition refers to no name that is still to be registered.
InOrder(definition, cs, ms) ==
    definition.kind = "Macro"
    => \A name \in Referenced(definition.expression, definition.parameters)
                    \cap DefinitionNames :
           HasKey(cs, name) \/ HasKey(ms, name)

\* The definitions of the registry, and one macro whose parameter bears
\* the name of a constant.
OrderedDefinitions ==
    Definitions
    \cup {Macro("n", <<"c">>, Comparison(FieldOf("c"), "==", FieldOf("d")))}

\* The roots, and one with a macro call among the arguments of another.
OrderedRoots ==
    Roots
    \cup {FunctionCall("n", <<FunctionCall("m", <<FieldOf("c")>>, FALSE)>>, FALSE),
          InSet(FieldOf("d"), <<FieldOf("c"), FunctionCall("n", <<>>, FALSE)>>)}

\* preprocessor.add_definition(definition), the definition in order
OrderedAddDefinitionStep ==
    \E definition \in OrderedDefinitions :
        /\ InOrder(definition, constants, macros)
        /\ Added(definition, AddDefinition(constants, macros, definition))

\* preprocessor.expand(root)
OrderedExpandStep ==
    \E root \in OrderedRoots :
        /\ op' = "expand"
        /\ x' = root
        /\ res' = Expand(root, constants, macros)
        /\ xAfter' = root
        /\ UNCHANGED <<py3, y, constants, macros, raised>>

NextOrdered ==
    \/ OrderedAddDefinitionStep
    \/ OrderedExpandStep

SpecOrdered == InitPre /\ [][NextOrdered]_vars

\* The tree holds a Field without a path whose base is a registered
\* constant, or a FunctionCall whose name is a registered macro.
RECURSIVE Unexpanded(_, _, _)
Unexpanded(node, cs, ms) ==
    \/ node.kind = "Field" /\ node.kids = <<>> /\ HasKey(cs, node.s)
    \/ node.kind = "FunctionCall" /\ HasKey(ms, node.s)
    \/ \E i \in 1..Len(node.kids) : Unexpanded(node.kids[i], cs, ms)

\* C22: with every definition registered after the constants and macros
\* its body refers to, the tree expand(root) returns holds no Field without
\* a path whose base is a registered constant and no FunctionCall whose
\* name is a registered macro.
C22_ExpansionComplete ==
    (op = "expand" /\ ~IsRaise(res)) => ~Unexpanded(res, constants, macros)

\* A root that calls a macro with a call of a second macro on a constant
\* was expanded, and the tree differs from the root.
C22_Witness ==
    /\ op = "expand"
    /\ x = FunctionCall("n", <<FunctionCall("m", <<FieldOf("c")>>, FALSE)>>, FALSE)
    /\ Len(constants) = 2
    /\ Len(macros) = 2
    /\ ~IsRaise(res)
    /\ res # x

=============================================================================
